---- MODULE Spec2Model ----
(***************************************************************************)
(* State-machine model of src/src/main.rs: the OBD receive dispatcher      *)
(* (obd_task) with its ISO-TP reassembly loop, the query scheduler         *)
(* (obd_sender_task), the downstream transmitter (comma_task), the         *)
(* OBD_CONTROLLER mutex, the SPI_BUS0 mutex and the FORWARDING_CHANNEL;    *)
(* and of its pure functions construct_uds_query and rx_address.           *)
(*                                                                         *)
(* The firmware is built with panic_probe: a panic in any task halts the   *)
(* whole firmware.  `fault` records the panic; no action is enabled after. *)
(* Sequences are 1-based: the Rust expression data[k] is data[k + 1] here. *)
(***************************************************************************)
EXTENDS Integers, Sequences, FiniteSets, TLC

(***************************************************************************)
(* Program constants                                                       *)
(***************************************************************************)
TRANSMIT_FIFO == 1
RX_BATTERY_FIFO == 2
RX_TPMS_FIFO == 3
\* Vec<u8, 64>
IsoTpCapacity == 64
\* Channel<_, obd_data::Data, 10>
ChannelCapacity == 10
\* iso_tp_length.unwrap_or(u16::MAX)
U16Max == 65535
\* StandardId::new(0x7E4), StandardId::new(0x7A0)
TxBms == 2020
TxTpms == 1952
\* StandardId::new(0x715)
CommaId == 1813
\* highest valid standard identifier (StandardId::new fails above it)
StandardIdMax == 2047
\* highest offset read by process_battery_data (data[55..57]) and process_tpms_data
BatteryMaxOffset == 56
TpmsMaxOffset == 20

(***************************************************************************)
(* Bounds of the model                                                     *)
(***************************************************************************)
\* records enqueued on the forwarding channel in a run of Spec
MaxEnq == 2
\* records enqueued in a run of PipeSpec (beyond the channel capacity)
MaxEnqPipe == 11
\* first frames accepted within one session
MaxFF == 2
\* bytes of the longest subcommand given to construct_uds_query
MaxCommandLen == 7
\* frames waiting in one receive FIFO in a run of FifoSpec
MaxRxDepth == 2
\* records enqueued on the forwarding channel in a run of FifoSpec
MaxEnqFifo == 1

(***************************************************************************)
(* Option values                                                           *)
(***************************************************************************)
\* iso_tp_length = None
NoLength == -1
\* current_fifo = None
NoFifo == 0
NoFrame == [id |-> 0, data |-> <<>>]
NoData == [kind |-> "None", desc |-> "", seq |-> 0]
\* an identifier not derived yet
NoId == -2
NoDerivation == [dir |-> "none", given |-> 0, via |-> NoId, back |-> NoId]

(***************************************************************************)
(* ECUAddresses                                                            *)
(***************************************************************************)
\* rx_address for standard identifiers; -1 stands for the panic of unwrap()
\* rx_address gone wrong: the response identifier is the request identifier
rx_address_NoOffset(ecu_addr) ==
    IF ecu_addr <= StandardIdMax THEN ecu_addr ELSE -1

rx_address(ecu_addr) ==
    IF ecu_addr + 8 <= StandardIdMax THEN ecu_addr + 8 ELSE -1

RxBms == rx_address(TxBms)
RxTpms == rx_address(TxTpms)
\* a response identifier of no configured ECU (0x7E8)
RxOther == 2024

\* FlowControlId gone wrong: the offset applied in the direction of rx_address
FlowControlId_Added(id) ==
    IF id + 8 <= StandardIdMax THEN id + 8 ELSE -1

\* tx_id of the flow-control frame; -1 stands for the panic (underflow / unwrap)
FlowControlId(id) ==
    IF id - 8 >= 0 /\ id - 8 <= StandardIdMax THEN id - 8 ELSE -1

FlowControlPayload == <<48, 0, 10, 0, 0, 0, 0, 0>>

FlowControlFrame(id) == [id |-> FlowControlId(id), data |-> FlowControlPayload]

(***************************************************************************)
(* construct_uds_query                                                     *)
(***************************************************************************)
\* construct_uds_query gone wrong: a subcommand of six bytes is refused
construct_uds_query_Short(command) ==
    IF Len(command) < 6
    THEN [i \in 1..8 |->
            IF i = 1 THEN (Len(command) + 1) % 256
            ELSE IF i = 2 THEN 34
            ELSE IF i - 2 <= Len(command) THEN command[i - 2]
            ELSE 0]
    ELSE [i \in 1..8 |-> 0]

construct_uds_query(command) ==
    IF Len(command) <= 6
    THEN [i \in 1..8 |->
            IF i = 1 THEN (Len(command) + 1) % 256
            ELSE IF i = 2 THEN 34
            ELSE IF i - 2 <= Len(command) THEN command[i - 2]
            ELSE 0]
    ELSE [i \in 1..8 |-> 0]

\* queries gone wrong: the tire-pressure query first
queries_Swapped ==
    << [id |-> TxTpms, data |-> construct_uds_query(<<192, 11>>)],
       [id |-> TxBms,  data |-> construct_uds_query(<<1, 1>>)] >>

queries ==
    << [id |-> TxBms, data |-> construct_uds_query(<<1, 1>>)],
       [id |-> TxTpms, data |-> construct_uds_query(<<192, 11>>)] >>

(***************************************************************************)
(* Frames the vehicle bus can deliver.  Byte i (0-based) of a frame that   *)
(* the protocol does not fix carries the value 0xA0 + i, so the origin of  *)
(* every reassembled byte can be read off its value.                       *)
(***************************************************************************)
Pad(i) == 160 + i

\* single frame: byte 0 = 0x0L, dlc bytes in all
SingleFrame(id, L, dlc) ==
    [id |-> id, data |-> [i \in 1..dlc |-> IF i = 1 THEN L ELSE Pad(i - 1)]]

\* first frame declaring total length N
FirstFrame(id, N) ==
    [id |-> id,
     data |-> [i \in 1..8 |-> IF i = 1 THEN 16 + (N \div 256)
                              ELSE IF i = 2 THEN N % 256
                              ELSE Pad(i - 1)]]

\* consecutive frame with sequence number s
ConsecutiveFrame(id, s) ==
    [id |-> id, data |-> [i \in 1..8 |-> IF i = 1 THEN 32 + s ELSE Pad(i - 1)]]

\* a frame that is not ISO-TP data framing (0x30: flow control)
OtherFrame(id) ==
    [id |-> id, data |-> [i \in 1..8 |-> IF i = 1 THEN 48 ELSE 0]]

RxIds == {RxBms, RxTpms, RxOther}

Frames ==
    {SingleFrame(id, 3, 8) : id \in RxIds}
    \cup {SingleFrame(RxOther, 3, 4), SingleFrame(RxOther, 7, 8),
          SingleFrame(RxOther, 1, 2), [id |-> RxOther, data |-> <<>>]}
    \cup {FirstFrame(RxOther, 10), FirstFrame(RxTpms, 27),
          FirstFrame(RxBms, 62), FirstFrame(RxBms, 100)}
    \cup {ConsecutiveFrame(id, 1) : id \in RxIds}
    \cup {OtherFrame(RxBms)}

PipeFrames ==
    {SingleFrame(RxOther, 3, 8), FirstFrame(RxOther, 100)}

\* descriptions carried by mcp25xxfd::Error::ControllerError
ErrorDescriptions == {"bus error"}

RxFifos == {RX_BATTERY_FIFO, RX_TPMS_FIFO}

\* the filters of obd_task: each receive FIFO accepts one response identifier
FilterAccepts(fifo, id) ==
    \/ fifo = RX_BATTERY_FIFO /\ id = RxBms
    \/ fifo = RX_TPMS_FIFO /\ id = RxTpms
    \/ id \notin {RxBms, RxTpms}

VARIABLES
    pc,                  \* obd_task: position in the receive loop
    iso_tp_data,         \* obd_task: Vec<u8, 64>
    iso_tp_length,       \* obd_task: Option<u16>
    current_fifo,        \* obd_task: Option<u8>
    frame,               \* obd_task: the frame received last in this session
    flow_control_frame,  \* obd_task: the flow-control frame about to be transmitted
    pending,             \* obd_task: the record handed to FORWARDING_CHANNEL.send
    ctrlLock,            \* OBD_CONTROLLER mutex: its holder
    spc,                 \* obd_sender_task: position
    qi,                  \* obd_sender_task: index of the query in the round
    txLast,              \* obd_sender_task: the query written last to TRANSMIT_FIFO
    cpc,                 \* comma_task: position
    forward_data,        \* comma_task: the record dequeued
    commaLast,           \* comma_task: the frame transmitted last
    channel,             \* FORWARDING_CHANNEL
    fault,               \* "none", or the panic that halted the firmware
    enqN,                \* history: records enqueued
    sentN,               \* history: records transmitted downstream
    nFF,                 \* history: first frames received in this session
    nFC,                 \* history: flow-control frames written to TRANSMIT_FIFO in this session
    fcSent,              \* history: the flow-control frame written last in this session
    shape,               \* history: what this session has received so far
    spiLock,             \* SPI_BUS0 mutex: its holder
    rxq,                 \* OBD controller: the frames waiting in each receive FIFO
    subcommand,          \* construct_uds_query: its argument
    query,               \* construct_uds_query: its result
    addr                 \* address derivation: identifier given, response and request identifier derived

sessVars == <<iso_tp_data, iso_tp_length, current_fifo, frame,
              flow_control_frame, nFF, nFC, fcSent, shape>>
senderVars == <<spc, qi, txLast>>
commaVars == <<cpc, forward_data, commaLast, sentN>>
\* state outside the three task loops: the receive FIFOs of the controller and
\* the arguments and results of the pure functions
restVars == <<rxq, subcommand, query, addr>>
vars == <<pc, iso_tp_data, iso_tp_length, current_fifo, frame,
          flow_control_frame, pending, ctrlLock, spc, qi, txLast, cpc,
          forward_data, commaLast, channel, fault, enqN, sentN, nFF, nFC, fcSent,
          shape, spiLock, rxq, subcommand, query, addr>>

Running == fault = "none"

\* the three tasks, the two mutexes, the channel and the receive FIFOs after
\* the controllers are configured
TasksInit ==
    /\ pc = "wait_int"
    /\ iso_tp_data = <<>>
    /\ iso_tp_length = NoLength
    /\ current_fifo = NoFifo
    /\ frame = NoFrame
    /\ flow_control_frame = NoFrame
    /\ pending = NoData
    /\ ctrlLock = "free"
    /\ spc = "lock"
    /\ qi = 1
    /\ txLast = NoFrame
    /\ cpc = "receive"
    /\ forward_data = NoData
    /\ commaLast = [id |-> 0, rec |-> NoData]
    /\ channel = <<>>
    /\ fault = "none"
    /\ enqN = 0
    /\ sentN = 0
    /\ nFF = 0
    /\ nFC = 0
    /\ fcSent = NoFrame
    /\ shape = "empty"
    /\ spiLock = "free"
    /\ rxq = [f \in RxFifos |-> <<>>]

Init ==
    /\ TasksInit
    /\ subcommand = <<>>
    /\ query = <<>>
    /\ addr = NoDerivation

(***************************************************************************)
(* Helpers of the reassembly loop                                          *)
(***************************************************************************)
\* the Rust slice s[from..]
SliceFrom(s, from) == SubSeq(s, from + 1, Len(s))

\* heapless::Vec::extend_from_slice: Err(()) when the capacity would be exceeded
extend_from_slice(vec, slice) ==
    IF Len(vec) + Len(slice) > IsoTpCapacity
    THEN [ok |-> FALSE, vec |-> vec]
    ELSE [ok |-> TRUE, vec |-> vec \o slice]

\* frame.data()[0] >> 4
FrameKind(fr) == fr.data[1] \div 16

\* frame.data()[1] as u16 + ((frame.data()[0] as u16 & 0b1111) << 8)
FirstFrameLength(fr) == fr.data[2] + ((fr.data[1] % 16) * 256)

\* break (frame, &iso_tp_data[1..3], &iso_tp_data[3..]): the slices panic on a
\* buffer of fewer than 3 bytes
Complete(buf, len) ==
    IF Len(buf) < 3
    THEN [pc |-> "receiving", data |-> buf, length |-> len, fault |-> "slice"]
    ELSE [pc |-> "route", data |-> buf, length |-> len, fault |-> "none"]

\* the arm Ok((fifo, frame)) of the receive loop, applied to the session state
\* (buf, len): the position reached, the new buffer and length, and the panic
HandleFrame(buf, len, fr) ==
    IF Len(fr.data) = 0
    THEN [pc |-> "receiving", data |-> buf, length |-> len, fault |-> "index"]
    ELSE CASE FrameKind(fr) = 0 ->
                LET r == extend_from_slice(buf, SliceFrom(fr.data, 1))
                IN  IF r.ok THEN Complete(r.vec, len)
                    ELSE [pc |-> "receiving", data |-> buf, length |-> len,
                          fault |-> "capacity"]
           [] FrameKind(fr) = 1 ->
                IF Len(fr.data) < 2
                THEN [pc |-> "receiving", data |-> buf, length |-> len,
                      fault |-> "index"]
                ELSE LET r == extend_from_slice(<<>>, SliceFrom(fr.data, 2))
                     IN  IF ~r.ok
                         THEN [pc |-> "receiving", data |-> <<>>,
                               length |-> FirstFrameLength(fr), fault |-> "capacity"]
                         ELSE IF FlowControlId(fr.id) = -1
                         THEN [pc |-> "receiving", data |-> r.vec,
                               length |-> FirstFrameLength(fr), fault |-> "id"]
                         ELSE [pc |-> "fc", data |-> r.vec,
                               length |-> FirstFrameLength(fr), fault |-> "none"]
           [] FrameKind(fr) = 2 ->
                LET r == extend_from_slice(buf, SliceFrom(fr.data, 1))
                IN  IF ~r.ok
                    THEN [pc |-> "receiving", data |-> buf, length |-> len,
                          fault |-> "capacity"]
                    ELSE IF Len(r.vec) >= (IF len = NoLength THEN U16Max ELSE len)
                    THEN Complete(r.vec, len)
                    ELSE [pc |-> "recv", data |-> r.vec, length |-> len,
                          fault |-> "none"]
           [] OTHER ->
                [pc |-> "recv", data |-> buf, length |-> len, fault |-> "none"]

(***************************************************************************)
(* History of a session: "empty" (nothing received), "single" (one single  *)
(* frame), "multi" (a first frame, then consecutive frames only),          *)
(* "resumed" (as "multi", with controller errors in between), "mixed"      *)
(* (anything else)                                                         *)
(***************************************************************************)
ShapeAfterFrame(sh, fr) ==
    IF Len(fr.data) = 0 THEN "mixed"
    ELSE CASE FrameKind(fr) = 0 -> IF sh = "empty" THEN "single" ELSE "mixed"
           [] FrameKind(fr) = 1 -> IF sh = "empty" THEN "multi" ELSE "mixed"
           [] FrameKind(fr) = 2 -> IF sh \in {"multi", "resumed"} THEN sh ELSE "mixed"
           [] OTHER -> "mixed"

ShapeAfterError(sh) ==
    IF sh \in {"multi", "resumed"} THEN "resumed" ELSE "mixed"

(***************************************************************************)
(* Telemetry decoders: the record kind, or the panic of an out-of-bounds   *)
(* index                                                                   *)
(***************************************************************************)
process_battery_data(data) ==
    IF Len(data) > BatteryMaxOffset
    THEN [kind |-> "BatteryData1", desc |-> "", seq |-> 0]
    ELSE [kind |-> "Panic", desc |-> "", seq |-> 0]

process_tpms_data(data) ==
    IF Len(data) > TpmsMaxOffset
    THEN [kind |-> "TirePressures", desc |-> "", seq |-> 0]
    ELSE [kind |-> "Panic", desc |-> "", seq |-> 0]

\* match id { bms => Some(process_battery_data), tpms => Some(process_tpms_data), _ => None }
Decode(id, data) ==
    IF id = RxBms THEN process_battery_data(data)
    ELSE IF id = RxTpms THEN process_tpms_data(data)
    ELSE NoData

(***************************************************************************)
(* FORWARDING_CHANNEL                                                      *)
(***************************************************************************)
\* CanSend gone wrong: a send that never waits for room
CanSend_Always(ch) == Len(ch) >= 0

\* send completes only while the channel has room
CanSend(ch) == Len(ch) < ChannelCapacity

ChannelSend(ch, item) == Append(ch, item)

\* ChannelFront gone wrong: the newest item is taken
ChannelFront_Newest(ch) == ch[Len(ch)]

\* receive takes the oldest item
ChannelFront(ch) == Head(ch)

ChannelRest(ch) == Tail(ch)

(***************************************************************************)
(* obd_task: the receive loop                                              *)
(***************************************************************************)
\* int.wait_for_low().await, then the session variables are created
WaitForLow ==
    /\ Running
    /\ pc = "wait_int"
    /\ pc' = "recv"
    /\ iso_tp_data' = <<>>
    /\ iso_tp_length' = NoLength
    /\ current_fifo' = NoFifo
    /\ frame' = NoFrame
    /\ flow_control_frame' = NoFrame
    /\ nFF' = 0
    /\ nFC' = 0
    /\ fcSent' = NoFrame
    /\ shape' = "empty"
    /\ UNCHANGED <<spiLock, restVars, pending, ctrlLock, senderVars, commaVars, channel, fault, enqN>>

\* obd_controller.lock().await of the receive
RecvLock(maxEnq) ==
    /\ Running
    /\ pc = "recv"
    /\ enqN < maxEnq
    /\ ctrlLock = "free"
    /\ ctrlLock' = "obd"
    /\ pc' = "receiving"
    /\ UNCHANGED <<spiLock, restVars, sessVars, pending, senderVars, commaVars, channel, fault, enqN>>

\* ReceiveFrame gone wrong: the mutex guard outlives the receive
ReceiveFrame_KeepsLock(menu) ==
    /\ Running
    /\ pc = "receiving"
    /\ spiLock \in {"free", "obd"}
    /\ \E fifo \in RxFifos, fr \in menu :
         /\ current_fifo # NoFifo => fifo = current_fifo
         /\ FilterAccepts(fifo, fr.id)
         /\ (Len(fr.data) > 0 /\ FrameKind(fr) = 1) => nFF < MaxFF
         /\ LET h == HandleFrame(iso_tp_data, iso_tp_length, fr)
            IN  /\ current_fifo' = fifo
                /\ frame' = fr
                /\ pc' = h.pc
                /\ iso_tp_data' = h.data
                /\ iso_tp_length' = h.length
                /\ fault' = h.fault
                /\ flow_control_frame' =
                     IF h.pc = "fc" THEN FlowControlFrame(fr.id) ELSE flow_control_frame
                /\ nFF' = IF Len(fr.data) > 0 /\ FrameKind(fr) = 1 THEN nFF + 1 ELSE nFF
                /\ shape' = ShapeAfterFrame(shape, fr)
    /\ ctrlLock' = ctrlLock
    /\ spiLock' = "free"
    /\ UNCHANGED <<restVars, nFC, fcSent, pending, senderVars, commaVars, channel, enqN>>

\* receive(current_fifo) returns Ok((fifo, frame)); the match on the frame kind
ReceiveFrame(menu) ==
    /\ Running
    /\ pc = "receiving"
    /\ spiLock \in {"free", "obd"}
    /\ \E fifo \in RxFifos, fr \in menu :
         /\ current_fifo # NoFifo => fifo = current_fifo
         /\ FilterAccepts(fifo, fr.id)
         /\ (Len(fr.data) > 0 /\ FrameKind(fr) = 1) => nFF < MaxFF
         /\ LET h == HandleFrame(iso_tp_data, iso_tp_length, fr)
            IN  /\ current_fifo' = fifo
                /\ frame' = fr
                /\ pc' = h.pc
                /\ iso_tp_data' = h.data
                /\ iso_tp_length' = h.length
                /\ fault' = h.fault
                /\ flow_control_frame' =
                     IF h.pc = "fc" THEN FlowControlFrame(fr.id) ELSE flow_control_frame
                /\ nFF' = IF Len(fr.data) > 0 /\ FrameKind(fr) = 1 THEN nFF + 1 ELSE nFF
                /\ shape' = ShapeAfterFrame(shape, fr)
    /\ ctrlLock' = "free"
    /\ spiLock' = "free"
    /\ UNCHANGED <<restVars, nFC, fcSent, pending, senderVars, commaVars, channel, enqN>>

\* ReceiveControllerError gone wrong: the mutex guard outlives the receive
ReceiveControllerError_KeepsLock ==
    /\ Running
    /\ pc = "receiving"
    /\ spiLock \in {"free", "obd"}
    /\ \E d \in ErrorDescriptions :
         pending' = [kind |-> "Error", desc |-> d, seq |-> 0]
    /\ pc' = "send_err"
    /\ ctrlLock' = ctrlLock
    /\ shape' = ShapeAfterError(shape)
    /\ spiLock' = "free"
    /\ UNCHANGED <<restVars, iso_tp_data, iso_tp_length, current_fifo, frame,
                   flow_control_frame, nFF, nFC, fcSent, senderVars, commaVars, channel, fault, enqN>>

\* receive returns Err(ControllerError(description))
ReceiveControllerError ==
    /\ Running
    /\ pc = "receiving"
    /\ spiLock \in {"free", "obd"}
    /\ \E d \in ErrorDescriptions :
         pending' = [kind |-> "Error", desc |-> d, seq |-> 0]
    /\ pc' = "send_err"
    /\ ctrlLock' = "free"
    /\ shape' = ShapeAfterError(shape)
    /\ spiLock' = "free"
    /\ UNCHANGED <<restVars, iso_tp_data, iso_tp_length, current_fifo, frame,
                   flow_control_frame, nFF, nFC, fcSent, senderVars, commaVars, channel, fault, enqN>>

\* receive returns any other error: err.unwrap() panics
ReceiveFault ==
    /\ Running
    /\ pc = "receiving"
    /\ spiLock \in {"free", "obd"}
    /\ fault' = "receive"
    /\ ctrlLock' = "free"
    /\ spiLock' = "free"
    /\ UNCHANGED <<restVars, pc, sessVars, pending, senderVars, commaVars, channel, enqN>>

\* obd_controller.lock().await of the flow-control transmit
FcLock ==
    /\ Running
    /\ pc = "fc"
    /\ ctrlLock = "free"
    /\ ctrlLock' = "obd"
    /\ pc' = "fc_tx"
    /\ UNCHANGED <<spiLock, restVars, sessVars, pending, senderVars, commaVars, channel, fault, enqN>>

\* transmit::<TRANSMIT_FIFO>(&flow_control_frame).await.unwrap()
FcTransmit ==
    /\ Running
    /\ pc = "fc_tx"
    /\ spiLock \in {"free", "obd"}
    /\ \E ok \in BOOLEAN :
         IF ok
         THEN /\ fcSent' = flow_control_frame
              /\ nFC' = nFC + 1
              /\ pc' = "recv"
              /\ flow_control_frame' = NoFrame
              /\ fault' = fault
         ELSE /\ fault' = "fc_transmit"
              /\ UNCHANGED <<fcSent, nFC, pc, flow_control_frame>>
    /\ ctrlLock' = "free"
    /\ spiLock' = "free"
    /\ UNCHANGED <<restVars, iso_tp_data, iso_tp_length, current_fifo, frame, nFF, shape,
                   pending, senderVars, commaVars, channel, enqN>>

\* the match on the identifier of the completed session and the decoder
Route ==
    /\ Running
    /\ pc = "route"
    /\ LET r == Decode(frame.id, SliceFrom(iso_tp_data, 3))
       IN  IF r.kind = "Panic"
           THEN /\ fault' = "decode"
                /\ UNCHANGED <<pc, pending>>
           ELSE /\ pc' = IF r.kind = "None" THEN "wait_int" ELSE "send_data"
                /\ pending' = r
                /\ fault' = fault
    /\ UNCHANGED <<spiLock, restVars, sessVars, ctrlLock, senderVars, commaVars, channel, enqN>>

\* Send gone wrong: the arm of the controller error leaves the receive loop
Send_EndsSession ==
    /\ Running
    /\ pc \in {"send_err", "send_data"}
    /\ CanSend(channel)
    /\ channel' = ChannelSend(channel, [pending EXCEPT !.seq = enqN + 1])
    /\ enqN' = enqN + 1
    /\ pending' = NoData
    /\ pc' = "wait_int"
    /\ UNCHANGED <<spiLock, restVars, sessVars, ctrlLock, senderVars, commaVars, fault>>

\* FORWARDING_CHANNEL.send(..).await, of the Error record (then the receive
\* loop goes on) or of the decoded record (then the next session)
Send ==
    /\ Running
    /\ pc \in {"send_err", "send_data"}
    /\ CanSend(channel)
    /\ channel' = ChannelSend(channel, [pending EXCEPT !.seq = enqN + 1])
    /\ enqN' = enqN + 1
    /\ pending' = NoData
    /\ pc' = IF pc = "send_err" THEN "recv" ELSE "wait_int"
    /\ UNCHANGED <<spiLock, restVars, sessVars, ctrlLock, senderVars, commaVars, fault>>

(***************************************************************************)
(* obd_sender_task                                                         *)
(***************************************************************************)
\* obd_controller.lock().await
SenderLock ==
    /\ Running
    /\ spc = "lock"
    /\ ctrlLock = "free"
    /\ ctrlLock' = "sender"
    /\ spc' = "transmit"
    /\ UNCHANGED <<spiLock, restVars, pc, sessVars, pending, qi, txLast, commaVars, channel, fault, enqN>>

\* transmit::<TRANSMIT_FIFO>(frame).await.unwrap(), then the next query or the timer
SenderTransmit ==
    /\ Running
    /\ spc = "transmit"
    /\ spiLock \in {"free", "sender"}
    /\ \E ok \in BOOLEAN :
         IF ok
         THEN /\ txLast' = queries[qi]
              /\ IF qi < Len(queries)
                 THEN qi' = qi + 1 /\ spc' = "lock"
                 ELSE qi' = 1 /\ spc' = "timer"
              /\ fault' = fault
         ELSE /\ fault' = "query_transmit"
              /\ UNCHANGED <<txLast, qi, spc>>
    /\ ctrlLock' = "free"
    /\ spiLock' = "free"
    /\ UNCHANGED <<restVars, pc, sessVars, pending, commaVars, channel, enqN>>

\* Timer::after_millis(1000).await
SenderTimer ==
    /\ Running
    /\ spc = "timer"
    /\ spc' = "lock"
    /\ UNCHANGED <<spiLock, restVars, pc, sessVars, pending, ctrlLock, qi, txLast, commaVars, channel,
                   fault, enqN>>

(***************************************************************************)
(* comma_task                                                              *)
(***************************************************************************)
\* FORWARDING_CHANNEL.receive().await
CommaReceive ==
    /\ Running
    /\ cpc = "receive"
    /\ channel # <<>>
    /\ forward_data' = ChannelFront(channel)
    /\ channel' = ChannelRest(channel)
    /\ cpc' = "transmit"
    /\ UNCHANGED <<spiLock, restVars, pc, sessVars, pending, ctrlLock, senderVars, commaLast, sentN,
                   fault, enqN>>

\* Frame::new(0x715, serialized record), transmit::<TRANSMIT_FIFO>(..).await.unwrap()
CommaTransmit ==
    /\ Running
    /\ cpc = "transmit"
    /\ spiLock \in {"free", "comma"}
    /\ \E ok \in BOOLEAN :
         IF ok
         THEN /\ commaLast' = [id |-> CommaId, rec |-> forward_data]
              /\ sentN' = sentN + 1
              /\ cpc' = "receive"
              /\ forward_data' = NoData
              /\ fault' = fault
         ELSE /\ fault' = "comma_transmit"
              /\ UNCHANGED <<commaLast, sentN, cpc, forward_data>>
    /\ spiLock' = "free"
    /\ UNCHANGED <<restVars, pc, sessVars, pending, ctrlLock, senderVars, channel, enqN>>

(***************************************************************************)
(* Specifications                                                          *)
(***************************************************************************)
Next ==
    \/ WaitForLow
    \/ RecvLock(MaxEnq)
    \/ ReceiveFrame(Frames)
    \/ ReceiveControllerError
    \/ ReceiveFault
    \/ FcLock
    \/ FcTransmit
    \/ Route
    \/ Send
    \/ SenderLock
    \/ SenderTransmit
    \/ SenderTimer
    \/ CommaReceive
    \/ CommaTransmit

Spec == Init /\ [][Next]_vars

\* the same program fed few frames and many controller errors: the channel fills
PipeNext ==
    \/ WaitForLow
    \/ RecvLock(MaxEnqPipe)
    \/ ReceiveFrame(PipeFrames)
    \/ ReceiveControllerError
    \/ ReceiveFault
    \/ FcLock
    \/ FcTransmit
    \/ Route
    \/ Send
    \/ SenderLock
    \/ SenderTransmit
    \/ SenderTimer
    \/ CommaReceive
    \/ CommaTransmit

PipeSpec == Init /\ [][PipeNext]_vars

(***************************************************************************)
(* The tasks under fair scheduling, with every transmit succeeding and no  *)
(* task panicking.  A transaction of either controller holds the SPI_BUS0  *)
(* mutex (SpiDevice, lines 187 and 382); here a task may be seen holding   *)
(* the bus, so that the other controller's transaction has to wait.        *)
(* Frames and controller errors come from the vehicle bus: the receive of  *)
(* line 238 returns when there is one, and nothing obliges the bus to      *)
(* deliver one, except the frame whose arrival lowered the interrupt pin.  *)
(***************************************************************************)
FairFrames ==
    {SingleFrame(RxOther, 3, 8), FirstFrame(RxOther, 10),
     ConsecutiveFrame(RxOther, 1), OtherFrame(RxBms)}

InTransaction(task) ==
    CASE task = "obd"    -> pc \in {"receiving", "fc_tx"}
      [] task = "sender" -> spc = "transmit"
      [] task = "comma"  -> cpc = "transmit"

SpiAcquire(task) ==
    /\ Running
    /\ InTransaction(task)
    /\ spiLock = "free"
    /\ spiLock' = task
    /\ UNCHANGED <<restVars, pc, sessVars, pending, ctrlLock, senderVars, commaVars, channel,
                   fault, enqN>>

NoPanic == fault' = "none"

ObdSteps ==
    \/ RecvLock(MaxEnq)
    \/ SpiAcquire("obd")
    \/ FcLock
    \/ FcTransmit /\ NoPanic
    \/ Route /\ NoPanic
    \/ Send

SenderSteps ==
    \/ SenderLock
    \/ SpiAcquire("sender")
    \/ SenderTransmit /\ NoPanic
    \/ SenderTimer

CommaSteps ==
    \/ CommaReceive
    \/ SpiAcquire("comma")
    \/ CommaTransmit /\ NoPanic

BusSteps ==
    \/ WaitForLow
    \/ ReceiveFrame(FairFrames) /\ NoPanic
    \/ ReceiveControllerError

FairNext == ObdSteps \/ SenderSteps \/ CommaSteps \/ BusSteps

\* the receive that follows the interrupt of line 229 finds the frame that
\* raised it
AnnouncedReceive ==
    /\ current_fifo = NoFifo
    /\ ReceiveFrame(FairFrames)
    /\ NoPanic

Fairness ==
    /\ WF_vars(ObdSteps)
    /\ SF_vars(SenderSteps)
    /\ WF_vars(CommaSteps)
    /\ WF_vars(AnnouncedReceive)

FairSpec == Init /\ [][FairNext]_vars /\ Fairness

(***************************************************************************)
(* The three tasks with the forwarding channel filled to its capacity and  *)
(* with the SPI_BUS0 mutex seen held.  ObdTask, SenderTask and CommaTask   *)
(* are the steps of one task each; a task waits for another when that one  *)
(* holds the mutex it asks for, or, the channel being full, for the        *)
(* consumer of the channel.                                                *)
(***************************************************************************)
ObdTask ==
    \/ WaitForLow
    \/ RecvLock(MaxEnqPipe)
    \/ SpiAcquire("obd")
    \/ ReceiveFrame(PipeFrames)
    \/ ReceiveControllerError
    \/ ReceiveFault
    \/ FcLock
    \/ FcTransmit
    \/ Route
    \/ Send

SenderTask ==
    \/ SenderLock
    \/ SpiAcquire("sender")
    \/ SenderTransmit
    \/ SenderTimer

CommaTask ==
    \/ CommaReceive
    \/ SpiAcquire("comma")
    \/ CommaTransmit

LockNext == ObdTask \/ SenderTask \/ CommaTask

LockSpec == Init /\ [][LockNext]_vars

Tasks == {"obd", "sender", "comma"}

WaitsFor(task) ==
    CASE task = "obd" ->
           IF pc \in {"recv", "fc"} /\ ctrlLock # "free" THEN ctrlLock
           ELSE IF pc \in {"receiving", "fc_tx"} /\ spiLock \notin {"free", "obd"} THEN spiLock
           ELSE IF pc \in {"send_err", "send_data"} /\ ~CanSend(channel) THEN "comma"
           ELSE "nobody"
      [] task = "sender" ->
           IF spc = "lock" /\ ctrlLock # "free" THEN ctrlLock
           ELSE IF spc = "transmit" /\ spiLock \notin {"free", "sender"} THEN spiLock
           ELSE "nobody"
      [] task = "comma" ->
           IF cpc = "transmit" /\ spiLock \notin {"free", "comma"} THEN spiLock
           ELSE "nobody"

CanStep(task) ==
    CASE task = "obd"    -> ENABLED ObdTask
      [] task = "sender" -> ENABLED SenderTask
      [] task = "comma"  -> ENABLED CommaTask

(***************************************************************************)
(* The dispatcher fed from the two receive FIFOs of the controller.  The   *)
(* filters put the frames of each ECU into its own FIFO, in arrival order; *)
(* receive(None) takes the oldest frame of any FIFO that has one,          *)
(* receive(Some(fifo)) the oldest frame of that FIFO, and both wait while  *)
(* there is none.                                                          *)
(***************************************************************************)
FifoFrames ==
    {FirstFrame(RxTpms, 27), ConsecutiveFrame(RxTpms, 1), SingleFrame(RxBms, 3, 8)}

Arrive ==
    /\ Running
    /\ \E fifo \in RxFifos, fr \in FifoFrames :
         /\ FilterAccepts(fifo, fr.id)
         /\ Len(rxq[fifo]) < MaxRxDepth
         /\ rxq' = [rxq EXCEPT ![fifo] = Append(@, fr)]
    /\ UNCHANGED <<pc, sessVars, pending, ctrlLock, senderVars, commaVars, channel, fault,
                   enqN, spiLock, subcommand, query, addr>>

FrameAvailable == \E fifo \in RxFifos : rxq[fifo] # <<>>

\* the FIFOs receive(hint) can take a frame from
ReceiveFifos(hint) ==
    {fifo \in RxFifos : rxq[fifo] # <<>> /\ (hint # NoFifo => fifo = hint)}

\* ReceiveQueued gone wrong: the FIFO of the frame is not remembered
ReceiveQueued_NoPin ==
    /\ Running
    /\ pc = "receiving"
    /\ spiLock \in {"free", "obd"}
    /\ \E fifo \in ReceiveFifos(current_fifo) :
         LET fr == Head(rxq[fifo])
             h  == HandleFrame(iso_tp_data, iso_tp_length, fr)
         IN  /\ (Len(fr.data) > 0 /\ FrameKind(fr) = 1) => nFF < MaxFF
             /\ rxq' = [rxq EXCEPT ![fifo] = Tail(@)]
             /\ current_fifo' = current_fifo
             /\ frame' = fr
             /\ pc' = h.pc
             /\ iso_tp_data' = h.data
             /\ iso_tp_length' = h.length
             /\ fault' = h.fault
             /\ flow_control_frame' =
                  IF h.pc = "fc" THEN FlowControlFrame(fr.id) ELSE flow_control_frame
             /\ nFF' = IF Len(fr.data) > 0 /\ FrameKind(fr) = 1 THEN nFF + 1 ELSE nFF
             /\ shape' = ShapeAfterFrame(shape, fr)
    /\ ctrlLock' = "free"
    /\ spiLock' = "free"
    /\ UNCHANGED <<subcommand, query, addr, nFC, fcSent, pending, senderVars, commaVars,
                   channel, enqN>>

\* receive(current_fifo) returns the oldest frame of a receive FIFO
ReceiveQueued ==
    /\ Running
    /\ pc = "receiving"
    /\ spiLock \in {"free", "obd"}
    /\ \E fifo \in ReceiveFifos(current_fifo) :
         LET fr == Head(rxq[fifo])
             h  == HandleFrame(iso_tp_data, iso_tp_length, fr)
         IN  /\ (Len(fr.data) > 0 /\ FrameKind(fr) = 1) => nFF < MaxFF
             /\ rxq' = [rxq EXCEPT ![fifo] = Tail(@)]
             /\ current_fifo' = fifo
             /\ frame' = fr
             /\ pc' = h.pc
             /\ iso_tp_data' = h.data
             /\ iso_tp_length' = h.length
             /\ fault' = h.fault
             /\ flow_control_frame' =
                  IF h.pc = "fc" THEN FlowControlFrame(fr.id) ELSE flow_control_frame
             /\ nFF' = IF Len(fr.data) > 0 /\ FrameKind(fr) = 1 THEN nFF + 1 ELSE nFF
             /\ shape' = ShapeAfterFrame(shape, fr)
    /\ ctrlLock' = "free"
    /\ spiLock' = "free"
    /\ UNCHANGED <<subcommand, query, addr, nFC, fcSent, pending, senderVars, commaVars,
                   channel, enqN>>

FifoNext ==
    \/ Arrive
    \/ FrameAvailable /\ WaitForLow
    \/ RecvLock(MaxEnqFifo)
    \/ ReceiveQueued
    \/ ReceiveControllerError
    \/ ReceiveFault
    \/ FcLock
    \/ FcTransmit
    \/ Route
    \/ Send
    \/ SenderLock
    \/ SenderTransmit
    \/ SenderTimer
    \/ CommaReceive
    \/ CommaTransmit

FifoSpec == Init /\ [][FifoNext]_vars

(***************************************************************************)
(* construct_uds_query applied to every subcommand of at most              *)
(* MaxCommandLen bytes over CommandBytes                                   *)
(***************************************************************************)
CommandBytes == {1, 11, 192}

RECURSIVE Commands(_)
Commands(n) ==
    IF n = 0
    THEN {<<>>}
    ELSE Commands(n - 1) \cup
         {Append(c, b) : c \in {d \in Commands(n - 1) : Len(d) = n - 1}, b \in CommandBytes}

QueryInit ==
    /\ TasksInit
    /\ subcommand \in Commands(MaxCommandLen)
    /\ query = <<>>
    /\ addr = NoDerivation

ConstructQuery ==
    /\ query = <<>>
    /\ query' = construct_uds_query(subcommand)
    /\ UNCHANGED <<pc, sessVars, pending, ctrlLock, senderVars, commaVars, channel, fault,
                   enqN, spiLock, rxq, subcommand, addr>>

QuerySpec == QueryInit /\ [][ConstructQuery]_vars

(***************************************************************************)
(* The two identifier derivations applied one after the other to every     *)
(* standard identifier: rx_address then the tx_id of the flow-control      *)
(* frame ("request"), and the other way round ("response")                 *)
(***************************************************************************)
AddrInit ==
    /\ TasksInit
    /\ subcommand = <<>>
    /\ query = <<>>
    /\ addr \in {[dir |-> d, given |-> g, via |-> NoId, back |-> NoId] :
                    d \in {"request", "response"}, g \in 0..StandardIdMax}

AddrUnchanged ==
    UNCHANGED <<pc, sessVars, pending, ctrlLock, senderVars, commaVars, channel, fault,
                enqN, spiLock, rxq, subcommand, query>>

\* a derivation that panicked (-1) is not continued
ApplyRxAddress ==
    /\ \/ /\ addr.dir = "request"
          /\ addr.via = NoId
          /\ addr' = [addr EXCEPT !.via = rx_address(addr.given)]
       \/ /\ addr.dir = "response"
          /\ addr.via \notin {NoId, -1}
          /\ addr.back = NoId
          /\ addr' = [addr EXCEPT !.back = rx_address(addr.via)]
    /\ AddrUnchanged

ApplyFlowControlId ==
    /\ \/ /\ addr.dir = "response"
          /\ addr.via = NoId
          /\ addr' = [addr EXCEPT !.via = FlowControlId(addr.given)]
       \/ /\ addr.dir = "request"
          /\ addr.via \notin {NoId, -1}
          /\ addr.back = NoId
          /\ addr' = [addr EXCEPT !.back = FlowControlId(addr.via)]
    /\ AddrUnchanged

AddrNext == ApplyRxAddress \/ ApplyFlowControlId

AddrSpec == AddrInit /\ [][AddrNext]_vars

(***************************************************************************)
(* Properties                                                              *)
(***************************************************************************)
SendPositions == {"send_err", "send_data"}

\* records dequeued by comma_task and not yet transmitted
InHand == IF cpc = "transmit" THEN 1 ELSE 0

\* C1: a session made of a first frame declaring N and consecutive frames
\* only completes with a reassembled buffer of exactly N bytes.
C1_ExactDeclaredLength ==
    (pc = "route" /\ shape = "multi") => Len(iso_tp_data) = iso_tp_length

\* C2: a single frame with length nibble L received at the start of a session
\* completes the session, the reassembled payload is bytes 1..1+L of the frame
\* and no flow-control frame is transmitted.
C2_SingleFramePayload ==
    shape = "single" =>
        /\ fault = "none"
        /\ pc \in {"route", "wait_int", "send_data"}
        /\ iso_tp_data = SubSeq(frame.data, 2, 1 + (frame.data[1] % 16))
        /\ nFC = 0

\* the flow-control frame the protocol asks for in answer to first frame fr
ExpectedFlowControl(fr) ==
    [id |-> fr.id - 8, data |-> <<48, 0, 10, 0, 0, 0, 0, 0>>]

C3_Balance ==
    /\ (Running /\ pc \notin {"fc", "fc_tx"}) => nFC = nFF
    /\ pc \in {"fc", "fc_tx"} =>
         /\ nFC = nFF - 1
         /\ FrameKind(frame) = 1
         /\ flow_control_frame = ExpectedFlowControl(frame)

C3_Step ==
    /\ nFC' = nFC + 1 =>
         /\ pc = "fc_tx" /\ pc' = "recv"
         /\ FrameKind(frame) = 1
         /\ fcSent' = ExpectedFlowControl(frame)
    /\ (pc = "fc_tx" /\ pc' # pc) => (pc' = "recv" /\ nFC' = nFC + 1)
    /\ (pc = "receiving" /\ pc' # pc) =>
         /\ nFC' = nFC /\ fcSent' = fcSent
         /\ pc' = "fc" <=>
              (Len(frame'.data) > 0 /\ FrameKind(frame') = 1 /\ nFF' = nFF + 1)

\* C3: every first frame received is answered, before the next receive, by
\* exactly one flow-control frame [0x30, 0x00, 10, 0, 0, 0, 0, 0] addressed to
\* (identifier of the first frame - 8); no other receive result causes a
\* flow-control transmission.
C3_OneFlowControlPerFirstFrame == []C3_Balance /\ [][C3_Step]_vars

\* a multi-frame transfer from the tire-pressure ECU completed with one
\* flow-control frame, addressed to the request identifier of that ECU
C3_Witness ==
    /\ pc = "route" /\ shape = "multi" /\ frame.id = RxTpms
    /\ nFF = 1 /\ nFC = 1
    /\ fcSent = [id |-> TxTpms, data |-> FlowControlPayload]

\* C4: a controller error in an incomplete multi-frame session aborts it, so
\* no session completes from a first frame received before the error and
\* consecutive frames received after it.
C4_ErrorAbortsSession ==
    ~(pc = "route" /\ shape = "resumed")

\* C8: a completed payload shorter than the layout of its decoder never halts
\* the dispatcher on an out-of-bounds access.
C8_NoDecodePanic ==
    fault # "decode"

\* C9: the reassembly buffer never exceeds its 64 bytes and an append beyond
\* them never crashes the dispatch loop.
C9_NoCapacityPanic ==
    /\ Len(iso_tp_data) <= IsoTpCapacity
    /\ fault # "capacity"

C10_Step ==
    (Running /\ pc = "route" /\ (pc' # pc \/ fault' # fault)) =>
        /\ fault' = fault
        /\ channel' = channel
        /\ IF frame.id = RxBms
           THEN pc' = "send_data" /\ pending'.kind = "BatteryData1"
           ELSE IF frame.id = RxTpms
           THEN pc' = "send_data" /\ pending'.kind = "TirePressures"
           ELSE pc' = "wait_int" /\ pending' = NoData

\* C10: a session completed by an identifier of no configured ECU enqueues
\* nothing and the next session starts; one completed by the battery or the
\* tire-pressure response identifier hands exactly one record of that kind to
\* the forwarding channel.
C10_RoutingByIdentifier == [][C10_Step]_vars

C5_State ==
    /\ pc = "send_err" => (pending.kind = "Error" /\ pending.desc \in ErrorDescriptions)
    /\ (Running /\ pc = "send_err" /\ Len(channel) < ChannelCapacity) => ENABLED Send

C5_Step ==
    /\ (pc = "receiving" /\ pc' = "send_err") =>
         (pending'.kind = "Error" /\ enqN' = enqN /\ channel' = channel)
    /\ pc = "send_err" =>
         \/ pc' = "send_err" /\ pending' = pending /\ enqN' = enqN
         \/ /\ pc' = "recv"
            /\ fault' = "none"
            /\ enqN' = enqN + 1
            /\ channel' = Append(channel, [pending EXCEPT !.seq = enqN + 1])

\* C5: a controller error returned by receive, the channel full or not, puts
\* exactly one Error record on the forwarding channel, and the dispatcher then
\* goes on receiving in the same loop; the path never panics.
C5_ErrorRecordAndContinue == []C5_State /\ [][C5_Step]_vars

\* the Error record of a controller error met with a full channel was
\* enqueued once the transmitter had made room, and the dispatcher receives
C5_Witness ==
    /\ Running /\ pc = "recv"
    /\ enqN > ChannelCapacity
    /\ Len(channel) = ChannelCapacity
    /\ channel[Len(channel)] = [kind |-> "Error", desc |-> "bus error", seq |-> enqN]

\* C6: the records comma_task has dequeued and transmitted to 0x715 are a
\* prefix of the records enqueued: the k-th record transmitted is the k-th
\* record enqueued, and the channel holds the following ones in order.
C6_FifoOrder ==
    /\ \A i \in 1..Len(channel) : channel[i].seq = sentN + InHand + i
    /\ cpc = "transmit" => forward_data.seq = sentN + 1
    /\ sentN > 0 => (commaLast.id = CommaId /\ commaLast.rec.seq = sentN)

C6_Witness ==
    /\ sentN >= 2
    /\ cpc = "transmit"
    /\ Len(channel) >= 2
    /\ commaLast.id = CommaId

C7_State ==
    /\ Len(channel) <= ChannelCapacity
    /\ enqN = sentN + InHand + Len(channel)
    /\ (Running /\ pc \in SendPositions /\ Len(channel) < ChannelCapacity)
           => ENABLED Send

C7_Step ==
    /\ (pc \in SendPositions /\ Len(channel) = ChannelCapacity) =>
         /\ pc' = pc /\ pending' = pending /\ enqN' = enqN
         /\ channel' = channel \/ channel' = Tail(channel)
    /\ enqN' # enqN =>
         /\ pc \in SendPositions
         /\ channel' = Append(channel, [pending EXCEPT !.seq = enqN'])

\* C7: the forwarding channel never holds more than 10 records and loses
\* none; a producer sending to a full channel stays suspended with its record
\* until comma_task dequeues, and its record is what is enqueued then.
C7_BoundedNoLoss == []C7_State /\ [][C7_Step]_vars

\* the dispatcher suspended in send with its Error record, the channel full
C7_Witness ==
    /\ Running
    /\ pc = "send_err"
    /\ pending.kind = "Error"
    /\ Len(channel) = ChannelCapacity

\* C11: a failed transmit of a query never stops the scheduler: it abandons
\* that query for this round and goes on with the next query and later rounds.
\* The program panics on the failed transmit (line 370, unwrap), and the panic
\* halts the scheduler with every other task.
C11_TransmitFailureSkipsQuery == fault # "query_transmit"

\* C12: under fair scheduling and successful transmits the scheduler transmits
\* the query of every configured ECU infinitely often, whatever is received.
\* The dispatcher holds the OBD_CONTROLLER mutex for the whole receive of line
\* 238, which returns only when the bus delivers something: a response that
\* stalls after its first frame leaves the mutex taken and the scheduler waiting.
C12_QueriesInfinitelyOften ==
    /\ []<>(txLast = queries[1])
    /\ []<>(txLast = queries[2])

\* C13: every round the scheduler transmits exactly one query frame per
\* configured ECU, always the battery query first and the tire-pressure query
\* second, each with the same unchanged payload, and only then waits the
\* scheduling period.
ExpectedQuery(i) ==
    IF i = 1
    THEN [id |-> TxBms,  data |-> <<3, 34, 1, 1, 0, 0, 0, 0>>]
    ELSE [id |-> TxTpms, data |-> <<3, 34, 192, 11, 0, 0, 0, 0>>]

C13_State ==
    /\ qi \in {1, 2}
    /\ spc = "timer" => qi = 1 /\ txLast = ExpectedQuery(2)
    /\ (spc # "timer" /\ qi = 2) => txLast = ExpectedQuery(1)
    /\ (spc # "timer" /\ qi = 1) => txLast \in {NoFrame, ExpectedQuery(2)}

C13_Step ==
    /\ txLast' # txLast =>
         /\ spc = "transmit"
         /\ txLast' = ExpectedQuery(qi)
         /\ IF qi = 1 THEN spc' = "lock" /\ qi' = 2 ELSE spc' = "timer" /\ qi' = 1
    /\ (spc # "timer" /\ spc' = "timer") => qi = 2 /\ txLast' = ExpectedQuery(2)
    /\ (spc = "timer" /\ spc' # "timer") => spc' = "lock" /\ qi' = 1 /\ txLast' = txLast
    /\ (spc = "transmit" /\ spc' # "transmit") => txLast' = ExpectedQuery(qi)

C13_FixedRound == []C13_State /\ [][C13_Step]_vars

C13_Witness == spc = "timer" /\ txLast = ExpectedQuery(2) /\ sentN > 0

\* C14: neither loop holds the OBD_CONTROLLER mutex across a suspension other
\* than the controller transaction itself: the dispatcher holds it only inside
\* receive and inside the flow-control transmit, and has released it between
\* the two; the scheduler holds it only inside its transmit; nobody holds it at
\* the frame-available wait, at a send to the forwarding queue or at the timer.
C14_State ==
    /\ pc \in {"wait_int", "recv", "fc", "route", "send_err", "send_data"} => ctrlLock # "obd"
    /\ spc \in {"lock", "timer"} => ctrlLock # "sender"
    /\ ctrlLock = "obd" => pc \in {"receiving", "fc_tx"}
    /\ ctrlLock = "sender" => spc = "transmit"

C14_Step ==
    /\ (pc = "receiving" /\ pc' # "receiving") => ctrlLock' = "free"
    /\ (pc = "fc_tx" /\ pc' # "fc_tx") => ctrlLock' = "free"
    /\ (spc = "transmit" /\ spc' # "transmit") => ctrlLock' = "free"
    /\ (ctrlLock # "obd" /\ ctrlLock' = "obd") => ctrlLock = "free" /\ pc \in {"recv", "fc"}
    /\ (ctrlLock # "sender" /\ ctrlLock' = "sender") => ctrlLock = "free" /\ spc = "lock"

C14_LockOnlyAcrossTransaction == []C14_State /\ [][C14_Step]_vars

\* between the receive of a first frame and the flow-control transmit the
\* scheduler has the controller
C14_Witness == pc = "fc" /\ ctrlLock = "sender" /\ Running

\* C15: for every subcommand of 0 to 6 bytes construct_uds_query returns 8
\* bytes: byte 0 is the subcommand length plus one, byte 1 is 0x22, the
\* subcommand follows from byte 2 and the remaining bytes are zero, so that
\* [0x01, 0x01] gives [0x03, 0x22, 0x01, 0x01, 0, 0, 0, 0]; for a subcommand of
\* more than 6 bytes it returns eight zero bytes.
C15_QueryLayout ==
    query # <<>> =>
        /\ Len(query) = 8
        /\ Len(subcommand) <= 6 =>
             /\ query[1] = Len(subcommand) + 1
             /\ query[2] = 34
             /\ \A i \in 1..Len(subcommand) : query[i + 2] = subcommand[i]
             /\ \A j \in (Len(subcommand) + 3)..8 : query[j] = 0
        /\ Len(subcommand) > 6 => query = <<0, 0, 0, 0, 0, 0, 0, 0>>
        /\ subcommand = <<1, 1>> => query = <<3, 34, 1, 1, 0, 0, 0, 0>>

C15_Witness == subcommand = <<192, 11, 1, 1, 192, 11>> /\ query = <<7, 34, 192, 11, 1, 1, 192, 11>>

\* C16: the two identifier derivations are mutual inverses on the standard
\* range: for every request identifier r with r + 8 <= 0x7FF the flow-control
\* derivation applied to rx_address(r) gives r, and for every response
\* identifier s with 8 <= s <= 0x7FF rx_address applied to s - 8 gives s; so the
\* flow-control frame that answers the first frame of a configured ECU goes to
\* the request identifier of that ECU.
C16_MutualInverse ==
    /\ (addr.dir = "request" /\ addr.given + 8 <= StandardIdMax) =>
         /\ addr.via # NoId => addr.via = addr.given + 8
         /\ addr.back # NoId => addr.back = addr.given
    /\ (addr.dir = "response" /\ addr.given >= 8) =>
         /\ addr.via # NoId => addr.via = addr.given - 8
         /\ addr.back # NoId => addr.back = addr.given
    /\ (addr.dir = "request" /\ addr.given \in {TxBms, TxTpms} /\ addr.back # NoId) =>
         /\ addr.via \in {RxBms, RxTpms}
         /\ FlowControlFrame(addr.via).id = addr.given

C16_Witness ==
    addr = [dir |-> "request", given |-> TxTpms, via |-> RxTpms, back |-> TxTpms]

\* C17: a single frame always starts a fresh session: the payload emitted for
\* it depends only on that frame, also when it arrives while a multi-frame
\* session is incomplete (the partial buffer is discarded, not prepended).
\* The single-frame arm (line 250) appends to iso_tp_data without clearing it.
C17_SingleFrameStartsFresh ==
    (pc = "route" /\ FrameKind(frame) = 0) => iso_tp_data = SliceFrom(frame.data, 1)

\* C18: within one session the first receive carries no FIFO hint and every
\* later receive carries the FIFO of the most recently received frame; so,
\* while a session is incomplete, the dispatcher takes frames only from the
\* pinned FIFO, oldest first, and never a frame waiting in the FIFO of another
\* ECU; the hint is cleared only when a session has completed.
C18_State ==
    /\ current_fifo = NoFifo <=> frame = NoFrame
    /\ frame # NoFrame =>
         /\ current_fifo \in RxFifos
         /\ FilterAccepts(current_fifo, frame.id)

C18_Step ==
    /\ \A fifo \in RxFifos :
         Len(rxq'[fifo]) < Len(rxq[fifo]) =>
            /\ pc = "receiving"
            /\ current_fifo \in {NoFifo, fifo}
            /\ frame' = Head(rxq[fifo])
            /\ rxq' = [rxq EXCEPT ![fifo] = Tail(@)]
            /\ current_fifo' = fifo
    /\ current_fifo' # current_fifo =>
         \/ current_fifo = NoFifo /\ pc = "receiving"
         \/ current_fifo' = NoFifo /\ pc = "wait_int"
    /\ (pc = "receiving" /\ pc' = "send_err") => current_fifo' = current_fifo

C18_PinnedFifo == []C18_State /\ [][C18_Step]_vars

\* a consecutive frame taken from the pinned FIFO while a frame of the other
\* ECU has been waiting since before the session began
C18_Witness ==
    /\ pc = "recv"
    /\ shape = "multi"
    /\ current_fifo = RX_TPMS_FIFO
    /\ FrameKind(frame) = 2
    /\ Len(rxq[RX_BATTERY_FIFO]) = MaxRxDepth

\* C19: a received frame whose byte 0 has a high nibble other than 0, 1 and 2
\* is ignored: the buffer, the target length and the pinned FIFO stay as they
\* were, nothing is transmitted and nothing is enqueued.
\* current_fifo is assigned before the match on the nibble (line 242), so such
\* a frame, received first in a session, pins its FIFO.
C19_Step ==
    (/\ pc = "receiving"
     /\ pc' = "recv"
     /\ Len(frame'.data) > 0
     /\ FrameKind(frame') \notin {0, 1, 2})
    => /\ iso_tp_data' = iso_tp_data
       /\ iso_tp_length' = iso_tp_length
       /\ current_fifo' = current_fifo
       /\ nFC' = nFC /\ fcSent' = fcSent /\ txLast' = txLast
       /\ channel' = channel /\ pending' = pending /\ enqN' = enqN

C19_OtherFrameIgnored == [][C19_Step]_vars

\* C20 as stated: the three tasks never deadlock on their shared resources: in
\* every state without a failed transmit, a task waiting for the controller
\* mutex, the SPI bus mutex or room in the forwarding queue waits for a task
\* that can itself take a step; the dispatcher holds no mutex while it waits on
\* the full queue, so the downstream transmitter can always dequeue and the
\* scheduler can always acquire the controller.
C20_NoLockAtFullQueue ==
    /\ pc \in SendPositions => ctrlLock # "obd" /\ spiLock # "obd"
    /\ (cpc = "receive" /\ channel # <<>>) => ENABLED CommaReceive
    /\ (pc \in SendPositions /\ spc = "lock") => ENABLED SenderLock

C20_BlockerCanStep ==
    Running =>
        /\ \A t \in Tasks : WaitsFor(t) # "nobody" => CanStep(WaitsFor(t))
        /\ C20_NoLockAtFullQueue

\* C20 amended: a task that waits for a mutex or for room in the queue waits
\* for a task that can take a step, or for a task that in turn waits, for the
\* SPI bus only, on a third task that can take a step; a task that waits
\* takes no step.  The rest as stated.
C20_NoDeadlock ==
    Running =>
        /\ \A t \in Tasks :
             WaitsFor(t) # "nobody" =>
                LET b == WaitsFor(t)
                IN  \/ CanStep(b)
                    \/ /\ WaitsFor(b) \notin {"nobody", t, b}
                       /\ spiLock = WaitsFor(b)
                       /\ CanStep(WaitsFor(b))
        /\ \A t \in Tasks : WaitsFor(t) # "nobody" => ~CanStep(t)
        /\ C20_NoLockAtFullQueue

\* the scheduler waits for the controller, which the dispatcher holds while
\* its receive waits for the bus that the downstream transmitter is using
C20_Witness ==
    /\ Running
    /\ WaitsFor("sender") = "obd"
    /\ WaitsFor("obd") = "comma"
    /\ pc = "receiving"
    /\ channel # <<>>

====
